---------------------------- MODULE Spec2Model ----------------------------
(***************************************************************************)
(* A model of td-design's chart wrapper,                                   *)
(* packages/charts/src/baseUtils/chart/index.ts:                           *)
(*   - mergeConfig and formatMergeConfig, the configuration pipeline;      *)
(*   - SingleChartHOC, the registry of chart instances, and its render.    *)
(*                                                                         *)
(* JavaScript values are tagged records [t |-> tag, v |-> payload]: a      *)
(* number, a string (a sequence of characters), null, undefined, an array  *)
(* (a sequence of values) and a plain object (a function from own keys to  *)
(* values).                                                                *)
(***************************************************************************)
EXTENDS Integers, Sequences, FiniteSets, TLC

-----------------------------------------------------------------------------
(* Bounds of the model. *)

\* Longest array among the configuration values drawn as inputs.
MaxArrLen == 2

\* Number of render calls made on one SingleChartHOC.
MaxCalls == 3

-----------------------------------------------------------------------------
(* JavaScript values. *)

Num(n) == [t |-> "num", v |-> n]
Str(s) == [t |-> "str", v |-> s]
Arr(s) == [t |-> "arr", v |-> s]
Rec(f) == [t |-> "rec", v |-> f]
Null == [t |-> "null", v |-> 0]
Undef == [t |-> "undef", v |-> 0]

EmptyObj == Rec(<<>>)

\* The property name of the i-th element (1-based here, 0-based in JS).
IdxKey(i) == <<"0", "1", "2", "3", "4", "5", "6", "7", "8", "9">>[i]

IdxOf(k) == CHOOSE i \in 1..10 : IdxKey(i) = k

\* The own enumerable properties of a value, as Object.assign and the spread
\* operator read them from a source: the fields of an object, the indexed
\* elements of an array, the indexed characters of a string, nothing of a
\* number, null or undefined.
OwnProps(x) ==
  CASE x.t = "rec" -> x.v
    [] x.t = "arr" -> [k \in {IdxKey(i) : i \in 1..Len(x.v)} |-> x.v[IdxOf(k)]]
    [] x.t = "str" -> [k \in {IdxKey(i) : i \in 1..Len(x.v)} |-> Str(<<x.v[IdxOf(k)]>>)]
    [] OTHER -> <<>>

\* x[key]: the property when x has it, undefined otherwise.
Get(x, key) == IF key \in DOMAIN OwnProps(x) THEN OwnProps(x)[key] ELSE Undef

\* JavaScript truthiness, as in `originConfig[key] && targetConfig[key]`.
Truthy(x) ==
  CASE x.t = "num" -> x.v # 0
    [] x.t = "str" -> x.v # <<>>
    [] x.t \in {"null", "undef"} -> FALSE
    [] OTHER -> TRUE

\* typeof x === 'object' (true of null too).
TypeofObject(x) == x.t \in {"rec", "arr", "null"}

\* Array.isArray(x)
IsArray(x) == x.t = "arr"

\* Object.assign({}, a, b): the own properties of a, overlaid by those of b.
ObjectAssign(a, b) ==
  [k \in DOMAIN OwnProps(a) \cup DOMAIN OwnProps(b) |->
     IF k \in DOMAIN OwnProps(b) THEN OwnProps(b)[k] ELSE OwnProps(a)[k]]

-----------------------------------------------------------------------------
(* mergeConfig and formatMergeConfig. *)

\* The condition under which mergeConfig merges a key once more.
MergesAgain(originConfig, targetConfig, key) ==
  /\ Truthy(Get(originConfig, key))
  /\ Truthy(Get(targetConfig, key))
  /\ TypeofObject(Get(targetConfig, key))
  /\ ~IsArray(Get(targetConfig, key))

\* mergeConfig without its second pass: Object.assign alone.
mergeConfigShallow(originConfig, targetConfig) ==
  Rec(ObjectAssign(originConfig, targetConfig))

RECURSIVE mergeConfig(_, _)
mergeConfig(originConfig, targetConfig) ==
  LET modifiedObj == ObjectAssign(originConfig, targetConfig)
  IN  Rec([key \in DOMAIN modifiedObj |->
             IF MergesAgain(originConfig, targetConfig, key)
             THEN mergeConfig(Get(originConfig, key), Get(targetConfig, key))
             ELSE modifiedObj[key]])

\* The formatConfig functions a caller passes, by name; NoFormat is the
\* omitted argument.
NoFormat == "none"

\* cfg => ({ ...cfg, n: (typeof cfg.n === 'number' ? cfg.n : 0) + 100 })
FormatAddN(cfg) ==
  Rec([k \in DOMAIN OwnProps(cfg) \cup {"n"} |->
         IF k = "n"
         THEN Num((IF Get(cfg, "n").t = "num" THEN Get(cfg, "n").v ELSE 0) + 100)
         ELSE OwnProps(cfg)[k]])

\* cfg => ({ a: cfg.a })
FormatPickA(cfg) == Rec([k \in {"a"} |-> Get(cfg, "a")])

\* cfg => ({ ...cfg, data: [] })
FormatSetData(cfg) ==
  Rec([k \in DOMAIN OwnProps(cfg) \cup {"data"} |->
         IF k = "data" THEN Arr(<<>>) ELSE OwnProps(cfg)[k]])

ApplyFormat(formatConfig, cfg) ==
  CASE formatConfig = "addN" -> FormatAddN(cfg)
    [] formatConfig = "pickA" -> FormatPickA(cfg)
    [] formatConfig = "setData" -> FormatSetData(cfg)

\* formatMergeConfig as its doc comment has it: with a formatConfig, the
\* configs are overlaid property by property instead of merged.
formatMergeConfigRunOverwrite(originConfig, targetConfig, formatConfig) ==
  IF formatConfig # NoFormat
  THEN [result |-> ApplyFormat(formatConfig, Rec(ObjectAssign(originConfig, targetConfig))),
        formatCalls |-> <<Rec(ObjectAssign(originConfig, targetConfig))>>]
  ELSE [result |-> mergeConfig(originConfig, targetConfig), formatCalls |-> <<>>]

\* formatMergeConfig, with the calls of formatConfig it makes: the result and
\* the sequence of arguments formatConfig was called with.
formatMergeConfigRun(originConfig, targetConfig, formatConfig) ==
  LET mergedConfig == mergeConfig(originConfig, targetConfig)
  IN  IF formatConfig # NoFormat
      THEN [result |-> ApplyFormat(formatConfig, mergedConfig),
            formatCalls |-> <<mergedConfig>>]
      ELSE [result |-> mergedConfig, formatCalls |-> <<>>]

formatMergeConfig(originConfig, targetConfig, formatConfig) ==
  formatMergeConfigRun(originConfig, targetConfig, formatConfig).result


-----------------------------------------------------------------------------
(* SingleChartHOC: helpers. *)

\* lodash's isEqual on two values: the same kind of value and, recursively,
\* the same elements or the same keys with equal values. Object identity
\* plays no part.
RECURSIVE DeepEqual(_, _)
DeepEqual(a, b) ==
  /\ a.t = b.t
  /\ CASE a.t = "arr" ->
            /\ Len(a.v) = Len(b.v)
            /\ \A i \in 1..Len(a.v) : DeepEqual(a.v[i], b.v[i])
       [] a.t = "rec" ->
            /\ DOMAIN a.v = DOMAIN b.v
            /\ \A k \in DOMAIN a.v : DeepEqual(a.v[k], b.v[k])
       [] OTHER -> a.v = b.v

\* isEqual replaced by ===.
isEqualByIdentity(a, b) == a.id = b.id

\* A data object is [id |-> its identity, v |-> its content].
isEqual(a, b) == DeepEqual(a.v, b.v)

\* findIndex with a predicate no element satisfies.
FindIndexNever(arr, dom) == 0

\* findIndex(item => item): the first truthy element, whatever dom is.
FindIndexAny(arr, dom) == IF Len(arr) > 0 THEN 1 ELSE 0

\* Array.prototype.findIndex(item => item === dom), 1-based; 0 for -1.
FindIndex(arr, dom) ==
  IF \E i \in 1..Len(arr) : arr[i] = dom
  THEN CHOOSE i \in 1..Len(arr) : arr[i] = dom /\ \A j \in 1..(i - 1) : arr[j] # dom
  ELSE 0

\* The getOriginConfig of the model, when one is passed to the constructor:
\* (data, config, formatConfig) => ({ a: { x: 0, y: 0 }, b: 1 })
BaseOriginConfig == Rec([a |-> Rec([x |-> Num(0), y |-> Num(0)]), b |-> Num(1)])

\* The instance repainted before it is given the new configuration.
StageOrderRenderFirst ==
  <<"getOriginConfig", "formatConfig", "render", "updateConfig", "stateManagerFunc">>

\* The functions render calls on the update path, in the order of the code.
StageOrder == <<"getOriginConfig", "formatConfig", "updateConfig", "render", "stateManagerFunc">>

StagePos(stage) == CHOOSE i \in 1..Len(StageOrder) : StageOrder[i] = stage

\* getOriginConfig consulted only when there is a formatConfig to apply.
UpdateStagesOriginWithFormat(hasOrigin, formatConfig, hasStateManager) ==
  SelectSeq(StageOrder,
            LAMBDA stage :
              CASE stage = "getOriginConfig" -> hasOrigin /\ formatConfig # NoFormat
                [] stage = "formatConfig" -> formatConfig # NoFormat
                [] stage = "stateManagerFunc" -> hasStateManager
                [] OTHER -> TRUE)

\* The functions an update-path call invokes when none of them throws.
UpdateStages(hasOrigin, formatConfig, hasStateManager) ==
  SelectSeq(StageOrder,
            LAMBDA stage :
              CASE stage = "getOriginConfig" -> hasOrigin
                [] stage = "formatConfig" -> formatConfig # NoFormat
                [] stage = "stateManagerFunc" -> hasStateManager
                [] OTHER -> TRUE)

\* `stage` was called (it returned or threw) / returned, when the call that
\* throws is failAt ("none": no call throws).
Called(stage, failAt) == failAt = "none" \/ StagePos(stage) <= StagePos(failAt)

Returned(stage, failAt) == failAt = "none" \/ StagePos(stage) < StagePos(failAt)

\* { data, ...formatted }: the argument of updateConfig.
UpdateArg(data, formatted) == Rec(ObjectAssign(Rec([data |-> data.v]), formatted))

\* config || {}
ConfigOrEmpty(config) == IF Truthy(config) THEN config ELSE EmptyObj

\* The data stored only once updateConfig and render have returned.
StoreDataAfter(arr, idx, data, failAt) ==
  IF failAt \in {"none", "stateManagerFunc"} THEN [arr EXCEPT ![idx] = data] ELSE arr

\* this.dataArr[idx] = data, the first statement of the update path: it has run
\* whichever call throws after it.
StoreData(arr, idx, data, failAt) == [arr EXCEPT ![idx] = data]

\* stateManagerFunc passed `config || {}` instead of config.
StateManagerArgsDefaulted(plot, data, config) == <<plot, data, ConfigOrEmpty(config)>>

\* The arguments of this.stateManagerFunc(this.chartPlotArr[idx], data, config).
StateManagerArgs(plot, data, config) == <<plot, data, config>>

-----------------------------------------------------------------------------
(* State. *)

VARIABLES
  \* one call of mergeConfig or formatMergeConfig
  mOrigin,        \* the originConfig argument
  mTarget,        \* the targetConfig argument
  mFormat,        \* the formatConfig argument (NoFormat when omitted)
  mResult,        \* the value returned
  mFormatCalls,   \* the arguments formatConfig was called with, in order
  mPc             \* "start", "merged" (mergeConfig returned) or "formatted"

VARIABLES
  \* a SingleChartHOC
  domArr,            \* the mount targets rendered so far
  dataArr,           \* dataArr[i]: the data stored for domArr[i]
  chartPlotArr,      \* chartPlotArr[i]: the instance of domArr[i]
  stateManagerFunc,  \* "null" or "supplied"
  getOriginConfig,   \* "null" or "supplied"
  \* the world around it
  plots,             \* plots[p]: the state of chart instance p
  getDomCalls,       \* getDomCalls[dom]: how often getDom was called for dom
  getDomThrows,      \* getDomThrows[dom]: how often that call threw
  call,              \* the latest call of render: request, calls made, outcome
  nCalls             \* the number of render calls so far

VARIABLES
  \* an ImagePicker
  onCancel,          \* the onCancel prop: "undefined" or "supplied"
  customRequest,     \* the customRequest prop: "undefined" or "supplied"
  currentImgSource,  \* the state kept by useState
  attempts           \* the presses so far: picker response, position, calls made

mergeVars == <<mOrigin, mTarget, mFormat, mResult, mFormatCalls, mPc>>

hocVars == <<domArr, dataArr, chartPlotArr, stateManagerFunc, getOriginConfig,
             plots, getDomCalls, getDomThrows, call, nCalls>>

pickerVars == <<onCancel, customRequest, currentImgSource, attempts>>

vars == <<mergeVars, hocVars, pickerVars>>

-----------------------------------------------------------------------------
(* The configurations drawn as arguments of mergeConfig. *)

\* Arrays of up to MaxArrLen elements.
Arrays == {Arr([i \in 1..n |-> Num(7)]) : n \in 0..MaxArrLen}

\* Every object with keys among `keys` and values among `vals`.
Objects(keys, vals) ==
  UNION {{Rec(f) : f \in [ks -> vals]} : ks \in SUBSET keys}

Scalars == {Num(0), Num(1), Str(<<"p", "q">>), Null, Undef}

InnerVals == {Num(1), Rec([z |-> Num(1)]), Rec([w |-> Num(2)])}

InnerObjects == Objects({"x", "y"}, InnerVals)

AVals == Scalars \cup Arrays \cup InnerObjects

BVals == {Num(1), Rec([x |-> Num(1)])}

Configs ==
  {Rec(ObjectAssign(a, b)) : a \in Objects({"a"}, AVals), b \in Objects({"b"}, BVals)}

Formats == {NoFormat, "addN", "pickA"}

-----------------------------------------------------------------------------
(* The render requests drawn. *)

Doms == {"domA", "domB"}

\* [{ x: 1, y: n }]
Rows(n) == Arr(<<Rec([x |-> Num(1), y |-> Num(n)])>>)

\* Two distinct objects with the same content, and one that differs from
\* them in one field.
DataObjs ==
  {[id |-> 1, v |-> Rows(2)], [id |-> 2, v |-> Rows(2)], [id |-> 3, v |-> Rows(3)]}

CfgA == Rec([a |-> Rec([y |-> Num(2)])])

\* The (config, formatConfig) pairs of the requests.
ReqOptions ==
  {[config |-> Undef, formatConfig |-> NoFormat],
   [config |-> CfgA, formatConfig |-> "addN"]}

\* { data: [] }
CfgData == Rec([data |-> Arr(<<>>)])

\* Requests whose config, or whose formatConfig's result, has a `data` key.
DataKeyOptions ==
  {[config |-> CfgData, formatConfig |-> NoFormat],
   [config |-> Undef, formatConfig |-> "setData"]}

-----------------------------------------------------------------------------
(* Calls of the two exported functions on drawn arguments. *)

\* No call of render yet.
NoCall ==
  [dom |-> "none", data |-> [id |-> 0, v |-> Undef], config |-> Undef,
   formatConfig |-> NoFormat, log |-> <<>>, outcome |-> "none", ret |-> 0]

\* A SingleChartHOC as its constructor and field initialisers leave it.
Constructed(stateManager, originConfig) ==
  /\ domArr = <<>>
  /\ dataArr = <<>>
  /\ chartPlotArr = <<>>
  /\ stateManagerFunc = stateManager
  /\ getOriginConfig = originConfig
  /\ plots = <<>>
  /\ getDomCalls = [dom \in Doms |-> 0]
  /\ getDomThrows = [dom \in Doms |-> 0]
  /\ call = NoCall
  /\ nCalls = 0

\* A prop that is not passed, a field a response does not have.
Absent == "undefined"

\* useState(): no image picked yet.
NoSource == [defined |-> FALSE, uri |-> Absent]

\* An ImagePicker as its first render leaves it.
PickerMounted(cancel, request) ==
  /\ onCancel = cancel
  /\ customRequest = request
  /\ currentImgSource = NoSource
  /\ attempts = <<>>

InitMerge ==
  /\ mOrigin \in Configs
  /\ mTarget \in Configs
  /\ mFormat = NoFormat
  /\ mResult = Undef
  /\ mFormatCalls = <<>>
  /\ mPc = "start"
  /\ Constructed("null", "null")
  /\ PickerMounted(Absent, Absent)

CallMergeConfig ==
  /\ mPc = "start"
  /\ mResult' = mergeConfig(mOrigin, mTarget)
  /\ mPc' = "merged"
  /\ UNCHANGED <<mOrigin, mTarget, mFormat, mFormatCalls>>
  /\ UNCHANGED hocVars
  /\ UNCHANGED pickerVars

CallFormatMergeConfig ==
  /\ mPc = "start"
  /\ \E formatConfig \in Formats :
       LET run == formatMergeConfigRun(mOrigin, mTarget, formatConfig)
       IN  /\ mFormat' = formatConfig
           /\ mResult' = run.result
           /\ mFormatCalls' = run.formatCalls
  /\ mPc' = "formatted"
  /\ UNCHANGED <<mOrigin, mTarget>>
  /\ UNCHANGED hocVars
  /\ UNCHANGED pickerVars

NextMerge == CallMergeConfig \/ CallFormatMergeConfig

SpecMerge == InitMerge /\ [][NextMerge]_vars

-----------------------------------------------------------------------------
(* SingleChartHOC.render *)

\* One call made by render: the function, the instance it is a method of (or
\* is passed), and its arguments.
Event(fn, plot, args) == [fn |-> fn, plot |-> plot, args |-> args]

\* The entry recorded although getDom threw.
RenderCreateRecordsFailure(dom, data, config, formatConfig, failAt) ==
  LET req == [dom |-> dom, data |-> data, config |-> config, formatConfig |-> formatConfig]
      plot == Len(plots) + 1
      made == [src |-> "getDom", arg |-> req]
  IN  /\ failAt \in {"none", "getDom"}
      /\ getDomCalls' = [getDomCalls EXCEPT ![dom] = @ + 1]
      /\ getDomThrows' = [getDomThrows EXCEPT ![dom] = IF failAt = "getDom" THEN @ + 1 ELSE @]
      /\ plots' = Append(plots, [options |-> made, painted |-> made])
      /\ chartPlotArr' = Append(chartPlotArr, plot)
      /\ dataArr' = Append(dataArr, data)
      /\ domArr' = Append(domArr, dom)
      /\ call' = [dom |-> dom, data |-> data, config |-> config,
                  formatConfig |-> formatConfig,
                  log |-> <<Event("getDom", IF failAt = "getDom" THEN 0 ELSE plot, <<req>>)>>,
                  outcome |-> IF failAt = "getDom" THEN "threw" ELSE "returned",
                  ret |-> IF failAt = "getDom" THEN 0 ELSE plot]

\* First request for this target: lines 126-133.
RenderCreate(dom, data, config, formatConfig, failAt) ==
  LET req == [dom |-> dom, data |-> data, config |-> config, formatConfig |-> formatConfig]
      plot == Len(plots) + 1
      made == [src |-> "getDom", arg |-> req]
  IN  /\ failAt \in {"none", "getDom"}
      /\ getDomCalls' = [getDomCalls EXCEPT ![dom] = @ + 1]
      /\ IF failAt = "getDom"
         THEN /\ getDomThrows' = [getDomThrows EXCEPT ![dom] = @ + 1]
              /\ UNCHANGED <<domArr, dataArr, chartPlotArr, plots>>
              /\ call' = [dom |-> dom, data |-> data, config |-> config,
                          formatConfig |-> formatConfig,
                          log |-> <<Event("getDom", 0, <<req>>)>>,
                          outcome |-> "threw", ret |-> 0]
         ELSE /\ UNCHANGED getDomThrows
              /\ plots' = Append(plots, [options |-> made, painted |-> made])
              /\ chartPlotArr' = Append(chartPlotArr, plot)
              /\ dataArr' = Append(dataArr, data)
              /\ domArr' = Append(domArr, dom)
              /\ call' = [dom |-> dom, data |-> data, config |-> config,
                          formatConfig |-> formatConfig,
                          log |-> <<Event("getDom", plot, <<req>>)>>,
                          outcome |-> "returned", ret |-> plot]

\* The chart created anew when the data changes, in place of the update.
RenderUpdateRecreate(idx, dom, data, config, formatConfig, failAt) ==
  LET req == [dom |-> dom, data |-> data, config |-> config, formatConfig |-> formatConfig]
      plot == Len(plots) + 1
      made == [src |-> "getDom", arg |-> req]
  IN  /\ failAt = "none"
      /\ getDomCalls' = [getDomCalls EXCEPT ![dom] = @ + 1]
      /\ plots' = Append(plots, [options |-> made, painted |-> made])
      /\ chartPlotArr' = [chartPlotArr EXCEPT ![idx] = plot]
      /\ dataArr' = [dataArr EXCEPT ![idx] = data]
      /\ call' = [dom |-> dom, data |-> data, config |-> config,
                  formatConfig |-> formatConfig,
                  log |-> <<Event("getDom", plot, <<req>>)>>,
                  outcome |-> "returned", ret |-> plot]
      /\ UNCHANGED <<domArr, getDomThrows>>

\* Known target, data changed: lines 134-152.
RenderUpdate(idx, dom, data, config, formatConfig, failAt) ==
  LET plot == chartPlotArr[idx]
      stages == UpdateStages(getOriginConfig # "null", formatConfig, stateManagerFunc # "null")
      originConfig == IF getOriginConfig # "null" THEN BaseOriginConfig ELSE EmptyObj
      run == formatMergeConfigRun(originConfig, ConfigOrEmpty(config), formatConfig)
      updateArg == UpdateArg(data, run.result)
      args(stage) ==
        CASE stage = "getOriginConfig" -> <<data, config, formatConfig>>
          [] stage = "formatConfig" -> run.formatCalls
          [] stage = "updateConfig" -> <<updateArg>>
          [] stage = "render" -> <<>>
          [] stage = "stateManagerFunc" -> StateManagerArgs(plot, data, config)
      called == SelectSeq(stages, LAMBDA stage : Called(stage, failAt))
      configured ==
        IF Returned("updateConfig", failAt)
        THEN [src |-> "updateConfig", arg |-> updateArg]
        ELSE plots[plot].options
  IN  /\ failAt \in {"none"} \cup {stages[i] : i \in 1..Len(stages)}
      /\ dataArr' = StoreData(dataArr, idx, data, failAt)
      /\ plots' = [plots EXCEPT ![plot] =
                     [options |-> configured,
                      painted |-> IF Returned("render", failAt)
                                  THEN configured ELSE plots[plot].painted]]
      /\ call' = [dom |-> dom, data |-> data, config |-> config,
                  formatConfig |-> formatConfig,
                  log |-> [i \in 1..Len(called) |->
                             Event(called[i],
                                   IF called[i] \in {"updateConfig", "render", "stateManagerFunc"}
                                   THEN plot ELSE 0,
                                   args(called[i]))],
                  outcome |-> IF failAt = "none" THEN "returned" ELSE "threw",
                  ret |-> IF failAt = "none" THEN plot ELSE 0]
      /\ UNCHANGED <<domArr, chartPlotArr, getDomCalls, getDomThrows>>

\* The instance of the first entry returned, whichever entry the target has.
RenderSameFirstInstance(idx, dom, data, config, formatConfig, failAt) ==
  /\ failAt = "none"
  /\ call' = [dom |-> dom, data |-> data, config |-> config,
              formatConfig |-> formatConfig, log |-> <<>>,
              outcome |-> "returned", ret |-> chartPlotArr[1]]
  /\ UNCHANGED <<domArr, dataArr, chartPlotArr, plots, getDomCalls, getDomThrows>>

\* Known target, data unchanged: lines 134 and 152.
RenderSame(idx, dom, data, config, formatConfig, failAt) ==
  /\ failAt = "none"
  /\ call' = [dom |-> dom, data |-> data, config |-> config,
              formatConfig |-> formatConfig, log |-> <<>>,
              outcome |-> "returned", ret |-> chartPlotArr[idx]]
  /\ UNCHANGED <<domArr, dataArr, chartPlotArr, plots, getDomCalls, getDomThrows>>

\* The callbacks that may throw.
FailPoints == {"none", "getDom"} \cup {StageOrder[i] : i \in 1..Len(StageOrder)}

\* One call of render, its config and formatConfig drawn from `options`.
RenderOf(options) ==
  /\ nCalls < MaxCalls
  /\ nCalls' = nCalls + 1
  /\ \E dom \in Doms, data \in DataObjs, opt \in options, failAt \in FailPoints :
       LET idx == FindIndex(domArr, dom)
       IN  IF idx = 0
           THEN RenderCreate(dom, data, opt.config, opt.formatConfig, failAt)
           ELSE IF ~isEqual(dataArr[idx], data)
                THEN RenderUpdate(idx, dom, data, opt.config, opt.formatConfig, failAt)
                ELSE RenderSame(idx, dom, data, opt.config, opt.formatConfig, failAt)
  /\ UNCHANGED <<stateManagerFunc, getOriginConfig>>
  /\ UNCHANGED mergeVars
  /\ UNCHANGED pickerVars

Render == RenderOf(ReqOptions)

\* A call of render whose configuration brings a `data` key of its own.
RenderData == RenderOf(DataKeyOptions)

Init ==
  /\ \E stateManager \in {"null", "supplied"}, originConfig \in {"null", "supplied"} :
       Constructed(stateManager, originConfig)
  /\ mOrigin = EmptyObj
  /\ mTarget = EmptyObj
  /\ mFormat = NoFormat
  /\ mResult = Undef
  /\ mFormatCalls = <<>>
  /\ mPc = "idle"
  /\ PickerMounted(Absent, Absent)

Next == Render

Spec == Init /\ [][Next]_vars

NextData == RenderData

\* The SingleChartHOC driven by requests with a `data` key in the configuration.
SpecData == Init /\ [][NextData]_vars

-----------------------------------------------------------------------------
(* ImagePicker: handleUploadImage *)

\* How often the button is pressed.
MaxAttempts == 2

\* What showImagePicker hands its callback: an error, a cancellation, or one
\* of two picked images.
PickerResponses ==
  {[error |-> "Camera permissions not granted", didCancel |-> FALSE,
    uri |-> Absent, fileName |-> Absent, type |-> Absent],
   [error |-> Absent, didCancel |-> TRUE,
    uri |-> Absent, fileName |-> Absent, type |-> Absent],
   [error |-> Absent, didCancel |-> FALSE,
    uri |-> "file://a.jpg", fileName |-> "a.jpg", type |-> "image/jpeg"],
   [error |-> Absent, didCancel |-> FALSE,
    uri |-> "file://b.png", fileName |-> "b.png", type |-> "image/png"]}

\* The picker is open: no response yet.
NoResponse ==
  [error |-> Absent, didCancel |-> FALSE, uri |-> Absent, fileName |-> Absent,
   type |-> Absent]

\* One call made by the callback: the function and its argument.
PickerEvent(fn, arg) == [fn |-> fn, arg |-> arg]

\* What an upload method hands back to the await: a result, or an exception
\* (a rejected promise).
UploadReturned(success, file) == [kind |-> "returned", success |-> success, file |-> file]

UploadThrew == [kind |-> "threw", success |-> FALSE, file |-> ""]

\* The results uploadFile can return. It catches what fetch, json() and
\* uri.replace throw and returns success: false; uri.replace throws when the
\* response has no uri.
uploadFile(file) ==
  IF file.uri = Absent
  THEN {UploadReturned(FALSE, "")}
  ELSE {UploadReturned(TRUE, "https://host/" \o file.fileName), UploadReturned(FALSE, "")}

\* What a customRequest may do with a file: return either result, or throw.
customRequestOutcomes(file) ==
  {UploadReturned(TRUE, "https://custom/file"), UploadReturned(FALSE, ""), UploadThrew}

\* customRequest || uploadFile
uploadMethod == IF customRequest # Absent THEN "customRequest" ELSE "uploadFile"

\* The callback of showImagePicker up to its await: the calls it makes and
\* where it stands afterwards.
PickerCallback(response) ==
  IF response.error # Absent
  THEN [calls |-> <<>>, pc |-> "done"]
  ELSE IF response.didCancel /\ onCancel # Absent
  THEN [calls |-> <<PickerEvent("onCancel", response)>>, pc |-> "done"]
  ELSE IF response.error # Absent
  THEN [calls |-> <<PickerEvent("onFailed", response)>>, pc |-> "done"]
  ELSE [calls |-> <<PickerEvent(uploadMethod,
                                [fileName |-> response.fileName,
                                 fileType |-> response.type,
                                 uri |-> response.uri])>>,
        pc |-> "uploading"]

\* The button is pressed: showImagePicker opens the picker.
handleUploadImage ==
  /\ Len(attempts) < MaxAttempts
  /\ \A i \in 1..Len(attempts) : attempts[i].pc # "picking"
  /\ attempts' = Append(attempts, [response |-> NoResponse, pc |-> "picking", calls |-> <<>>])
  /\ UNCHANGED <<onCancel, customRequest, currentImgSource>>
  /\ UNCHANGED <<mergeVars, hocVars>>

\* The picker calls back with its response.
PickerResponds ==
  /\ \E i \in 1..Len(attempts), response \in PickerResponses :
       /\ attempts[i].pc = "picking"
       /\ LET ran == PickerCallback(response)
          IN  attempts' = [attempts EXCEPT ![i] =
                             [response |-> response, pc |-> ran.pc, calls |-> ran.calls]]
  /\ UNCHANGED <<onCancel, customRequest, currentImgSource>>
  /\ UNCHANGED <<mergeVars, hocVars>>

\* The awaited upload settles and the callback runs to its end.
UploadSettles ==
  /\ \E i \in 1..Len(attempts) :
       LET response == attempts[i].response
           file == attempts[i].calls[1].arg
       IN  /\ attempts[i].pc = "uploading"
           /\ \E uploadResult \in (IF attempts[i].calls[1].fn = "customRequest"
                                    THEN customRequestOutcomes(file)
                                    ELSE uploadFile(file)) :
                IF uploadResult.kind = "threw"
                THEN /\ attempts' = [attempts EXCEPT ![i].pc = "rejected"]
                     /\ UNCHANGED currentImgSource
                ELSE IF uploadResult.success
                THEN /\ currentImgSource' = [defined |-> TRUE, uri |-> response.uri]
                     /\ attempts' =
                          [attempts EXCEPT
                             ![i].pc = "done",
                             ![i].calls =
                               @ \o <<PickerEvent("setCurrentImgSource", [uri |-> response.uri]),
                                      PickerEvent("onSuccess",
                                                  [fileUrl |-> uploadResult.file,
                                                   fileName |-> response.fileName])>>]
                ELSE /\ attempts' = [attempts EXCEPT ![i].pc = "done"]
                     /\ UNCHANGED currentImgSource
  /\ UNCHANGED <<onCancel, customRequest>>
  /\ UNCHANGED <<mergeVars, hocVars>>

InitPicker ==
  /\ \E cancel \in {Absent, "supplied"}, request \in {Absent, "supplied"} :
       PickerMounted(cancel, request)
  /\ Constructed("null", "null")
  /\ mOrigin = EmptyObj
  /\ mTarget = EmptyObj
  /\ mFormat = NoFormat
  /\ mResult = Undef
  /\ mFormatCalls = <<>>
  /\ mPc = "idle"

NextPicker == handleUploadImage \/ PickerResponds \/ UploadSettles

SpecPicker == InitPicker /\ [][NextPicker]_vars

-----------------------------------------------------------------------------
(* Vocabulary of the properties. *)

HasEntry(dom) == \E i \in 1..Len(domArr) : domArr[i] = dom

EntryOf(dom) == CHOOSE i \in 1..Len(domArr) : domArr[i] = dom

\* The calls of `fn` in a log.
CallsOf(fn, log) == SelectSeq(log, LAMBDA e : e.fn = fn)

\* The calls of the instance's own methods in a log.
MethodCalls(log) == SelectSeq(log, LAMBDA e : e.fn \in {"updateConfig", "render"})

\* A step that is one call of render.
RenderStep == nCalls' = nCalls + 1

\* The data an instance was last given: by getDom, or in the `data` field
\* of the argument of updateConfig.
GivenData(given) ==
  IF given.src = "getDom" THEN given.arg.data.v ELSE Get(given.arg, "data")

-----------------------------------------------------------------------------
(* Properties of SingleChartHOC.render, under Spec. *)

\* C1: a render call for a mount target that has an entry, with data deeply
\* equal to the data stored for it (the same object or another one), calls
\* nothing (no getDom, getOriginConfig, updateConfig, render,
\* stateManagerFunc), leaves the stored data, the stored instance and the
\* instance's state as they were, and returns the stored instance.
C1_Step ==
  LET dom == call'.dom
  IN  (RenderStep /\ HasEntry(dom) /\ dataArr[EntryOf(dom)].v = call'.data.v) =>
        /\ call'.log = <<>>
        /\ call'.outcome = "returned"
        /\ call'.ret = chartPlotArr[EntryOf(dom)]
        /\ domArr' = domArr
        /\ dataArr' = dataArr
        /\ chartPlotArr' = chartPlotArr
        /\ plots' = plots
        /\ getDomCalls' = getDomCalls

C1_EqualDataIsNoOp == [][C1_Step]_vars

\* A no-op call was made with an object other than the stored one.
C1_Witness ==
  /\ call.outcome = "returned"
  /\ call.log = <<>>
  /\ HasEntry(call.dom)
  /\ dataArr[EntryOf(call.dom)].id # call.data.id
  /\ dataArr[EntryOf(call.dom)].v = call.data.v

\* C2: getDom is called on the render call for a target that has no entry
\* and on no other; while no getDom call has thrown for a target, getDom has
\* been called exactly once for it if it was rendered and never otherwise; a
\* returning render call for a known target with changed data calls
\* updateConfig and then render on the existing instance, and returns it.
C2_Counts ==
  \A d \in Doms :
    getDomThrows[d] = 0 => getDomCalls[d] = (IF HasEntry(d) THEN 1 ELSE 0)

C2_Step ==
  LET dom == call'.dom
  IN  RenderStep =>
        /\ ~HasEntry(dom) =>
             /\ Len(CallsOf("getDom", call'.log)) = 1
             /\ getDomCalls' = [getDomCalls EXCEPT ![dom] = @ + 1]
        /\ HasEntry(dom) =>
             /\ CallsOf("getDom", call'.log) = <<>>
             /\ getDomCalls' = getDomCalls
        /\ (HasEntry(dom) /\ dataArr[EntryOf(dom)].v # call'.data.v
              /\ call'.outcome = "returned") =>
             /\ [i \in 1..Len(MethodCalls(call'.log)) |->
                   <<MethodCalls(call'.log)[i].fn, MethodCalls(call'.log)[i].plot>>]
                  = << <<"updateConfig", chartPlotArr[EntryOf(dom)]>>,
                       <<"render", chartPlotArr[EntryOf(dom)]>> >>
             /\ call'.ret = chartPlotArr[EntryOf(dom)]
             /\ chartPlotArr' = chartPlotArr
        /\ C2_Counts'

C2_CreateOnceThenUpdate == [][C2_Step]_vars

\* A second update of a target went through, getDom called once for it.
C2_Witness ==
  /\ nCalls = 3
  /\ call.outcome = "returned"
  /\ Len(CallsOf("updateConfig", call.log)) = 1
  /\ getDomCalls[call.dom] = 1
  /\ getDomThrows[call.dom] = 0

\* C3, as claimed: once a render call has returned, what the returned
\* instance was last given, by getDom or by updateConfig, is the data and the
\* configuration of that request. The code leaves the instance alone when the
\* data is unchanged, whatever the request's config and formatConfig.
C3_Reflects(given, req) ==
  /\ GivenData(given) = req.data.v
  /\ given.src = "getDom" =>
       /\ given.arg.config = req.config
       /\ given.arg.formatConfig = req.formatConfig
  /\ given.src = "updateConfig" =>
       given.arg =
         UpdateArg(req.data,
                   formatMergeConfig(
                     IF getOriginConfig # "null" THEN BaseOriginConfig ELSE EmptyObj,
                     ConfigOrEmpty(req.config), req.formatConfig))

C3_InstanceReflectsRequest ==
  call.outcome = "returned" =>
    /\ C3_Reflects(plots[call.ret].options, call)
    /\ C3_Reflects(plots[call.ret].painted, call)

\* C7: a render call for one mount target leaves every other target's entry
\* (target, stored data, instance) and that instance's state as they were,
\* calls getDom for no other target and calls nothing on another target's
\* instance.
C7_Step ==
  RenderStep =>
    /\ \A i \in 1..Len(domArr) :
         domArr[i] # call'.dom =>
           /\ domArr'[i] = domArr[i]
           /\ dataArr'[i] = dataArr[i]
           /\ chartPlotArr'[i] = chartPlotArr[i]
           /\ plots'[chartPlotArr[i]] = plots[chartPlotArr[i]]
           /\ \A j \in 1..Len(call'.log) : call'.log[j].plot # chartPlotArr[i]
    /\ \A d \in Doms \ {call'.dom} :
         /\ getDomCalls'[d] = getDomCalls[d]
         /\ getDomThrows'[d] = getDomThrows[d]

C7_OtherTargetsUntouched == [][C7_Step]_vars

\* With two targets registered, the first one was updated.
C7_Witness ==
  /\ Len(domArr) = 2
  /\ call.dom = domArr[1]
  /\ call.outcome = "returned"
  /\ Len(CallsOf("updateConfig", call.log)) = 1

\* C8, as claimed: with a stateManagerFunc, every render call for a known
\* target with changed data calls it exactly once.
C8_OrigStep ==
  (RenderStep /\ stateManagerFunc # "null" /\ HasEntry(call'.dom)
     /\ dataArr[EntryOf(call'.dom)].v # call'.data.v) =>
    Len(CallsOf("stateManagerFunc", call'.log)) = 1

C8_OncePerUpdateCall == [][C8_OrigStep]_vars

\* C8, amended: with a stateManagerFunc, a render call for a known target
\* with changed data in which getOriginConfig, formatConfig, updateConfig and
\* the instance's render all return calls it exactly once, last, with the
\* existing instance, the data and the config of that call; when one of them
\* throws it is not called; it is never called on a create-path or a no-op
\* call, nor when none was supplied.
C8_Step ==
  LET dom == call'.dom
      log == call'.log
      sm == CallsOf("stateManagerFunc", log)
      updates == HasEntry(dom) /\ dataArr[EntryOf(dom)].v # call'.data.v
      reached == Len(CallsOf("render", log)) = 1
                   /\ ~(call'.outcome = "threw" /\ log[Len(log)].fn = "render")
  IN  RenderStep =>
        /\ (stateManagerFunc # "null" /\ updates /\ reached) =>
             /\ Len(sm) = 1
             /\ log[Len(log)] =
                  Event("stateManagerFunc", chartPlotArr[EntryOf(dom)],
                        <<chartPlotArr[EntryOf(dom)], call'.data, call'.config>>)
        /\ (stateManagerFunc = "null" \/ ~updates \/ ~reached) => sm = <<>>

C8_OncePerCompletedUpdate == [][C8_Step]_vars

\* stateManagerFunc was called on an update made without a config.
C8_Witness ==
  /\ call.outcome = "returned"
  /\ call.config = Undef
  /\ Len(CallsOf("stateManagerFunc", call.log)) = 1

\* C9: no mount target occurs twice in domArr, and domArr, dataArr and
\* chartPlotArr have the same length.
C9_OneEntryPerTarget ==
  /\ \A i, j \in 1..Len(domArr) : domArr[i] = domArr[j] => i = j
  /\ Len(dataArr) = Len(domArr)
  /\ Len(chartPlotArr) = Len(domArr)

\* Two targets are registered and one of them was rendered again.
C9_Witness ==
  /\ Len(domArr) = 2
  /\ nCalls = 3
  /\ call.outcome = "returned"

\* C10: on the update path the new data is stored before anything is called:
\* when getOriginConfig, formatConfig, updateConfig or the instance's render
\* throws, render throws with the entry recording the new data and the
\* instance not repainted; and a render call with the stored data for an entry
\* whose instance was never given that data makes no call and leaves the
\* instance as it is.
C10_Step ==
  LET dom == call'.dom
      idx == EntryOf(dom)
      log == call'.log
  IN  RenderStep =>
        /\ (HasEntry(dom) /\ dataArr[idx].v # call'.data.v
              /\ call'.outcome = "threw"
              /\ log[Len(log)].fn \in {"getOriginConfig", "formatConfig",
                                       "updateConfig", "render"}) =>
             /\ dataArr'[idx] = call'.data
             /\ chartPlotArr'[idx] = chartPlotArr[idx]
             /\ plots'[chartPlotArr[idx]].painted = plots[chartPlotArr[idx]].painted
        /\ (HasEntry(dom) /\ dataArr[idx].v = call'.data.v
              /\ GivenData(plots[chartPlotArr[idx]].painted) # dataArr[idx].v) =>
             /\ log = <<>>
             /\ call'.outcome = "returned"
             /\ plots' = plots
             /\ dataArr' = dataArr

C10_DataStoredBeforeUpdate == [][C10_Step]_vars

\* A no-op call returned an instance that never painted the stored data.
C10_Witness ==
  /\ call.outcome = "returned"
  /\ call.log = <<>>
  /\ HasEntry(call.dom)
  /\ dataArr[EntryOf(call.dom)].v = call.data.v
  /\ GivenData(plots[call.ret].painted) # call.data.v

-----------------------------------------------------------------------------
(* Properties of mergeConfig and formatMergeConfig, under SpecMerge. *)

\* r is o and t merged by the four rules: a key of o alone keeps o's value, a
\* key of t alone takes t's, a key of both takes t's value when that is a
\* scalar, null or an array, and is merged by the same rules when both values
\* are objects.
RECURSIVE DeepMerged(_, _, _)
DeepMerged(o, t, r) ==
  /\ r.t = "rec"
  /\ DOMAIN r.v = DOMAIN o.v \cup DOMAIN t.v
  /\ \A k \in DOMAIN r.v :
       /\ k \notin DOMAIN t.v => r.v[k] = o.v[k]
       /\ k \notin DOMAIN o.v => r.v[k] = t.v[k]
       /\ (k \in DOMAIN o.v /\ k \in DOMAIN t.v) =>
            /\ t.v[k].t # "rec" => r.v[k] = t.v[k]
            /\ (t.v[k].t = "rec" /\ o.v[k].t = "rec") =>
                 DeepMerged(o.v[k], t.v[k], r.v[k])

\* C4: mergeConfig(origin, target) is origin and target deep-merged: keys of
\* one side keep that side's value, a scalar, null or array of target replaces
\* origin's value whole, and two objects are merged recursively.
C4_MergeIsDeepMerge == mPc = "merged" => DeepMerged(mOrigin, mTarget, mResult)

\* Objects nested two levels down were merged key by key.
C4_Witness ==
  /\ mPc = "merged"
  /\ \E k \in {"x", "y"} :
       /\ Get(Get(mOrigin, "a"), k) = Rec([z |-> Num(1)])
       /\ Get(Get(mTarget, "a"), k) = Rec([w |-> Num(2)])
       /\ Get(Get(mResult, "a"), k) = Rec([z |-> Num(1), w |-> Num(2)])
  /\ Get(mOrigin, "b") = Num(1)
  /\ Get(mTarget, "b") = Undef
  /\ Get(mResult, "b") = Num(1)

\* C5, as claimed: where target's value is an object and origin's is not,
\* the merged value is target's value exactly.
C5_TypeChangeReplaces ==
  mPc = "merged" =>
    \A k \in DOMAIN mOrigin.v \cap DOMAIN mTarget.v :
      (mTarget.v[k].t = "rec" /\ mOrigin.v[k].t # "rec") =>
        mResult.v[k] = mTarget.v[k]

C11_OverwriteWhenFormatted ==
  mPc = "formatted" =>
    IF mFormat # NoFormat
    THEN mResult = ApplyFormat(mFormat, Rec(ObjectAssign(mOrigin, mTarget)))
    ELSE mResult = mergeConfig(mOrigin, mTarget)

-----------------------------------------------------------------------------
(* Further properties of SingleChartHOC.render, under Spec. *)

\* The step is a call for a known target with changed data.
UpdateStep ==
  /\ RenderStep
  /\ HasEntry(call'.dom)
  /\ dataArr[EntryOf(call'.dom)].v # call'.data.v

\* config || {}, of the request of the step.
RequestConfig == IF call'.config = Undef THEN EmptyObj ELSE call'.config

\* The origin configuration of the step: what getOriginConfig returns, or {}.
RequestOrigin == IF getOriginConfig # "null" THEN BaseOriginConfig ELSE EmptyObj

\* The names of the functions called, in order.
Fns(log) == [i \in 1..Len(log) |-> log[i].fn]

\* The calls of an update-path call that runs to its end.
C13_Order ==
  (IF getOriginConfig # "null" THEN <<"getOriginConfig">> ELSE <<>>)
    \o (IF call'.formatConfig # NoFormat THEN <<"formatConfig">> ELSE <<>>)
    \o <<"updateConfig", "render">>
    \o (IF stateManagerFunc # "null" THEN <<"stateManagerFunc">> ELSE <<>>)

\* C13: on an update-path call the stored data is replaced before anything is
\* called (it is replaced even when the first call throws); then
\* getOriginConfig (if supplied), formatConfig (if supplied) on the merged
\* configuration, updateConfig with the result, the instance's render and
\* stateManagerFunc (if supplied) are called in this order, each at most once,
\* the calls stopping at the one that throws; the existing instance is
\* returned after the last.
C13_Step ==
  LET log == call'.log
      idx == EntryOf(call'.dom)
      plot == chartPlotArr[idx]
      merged == mergeConfig(RequestOrigin, RequestConfig)
      final == IF call'.formatConfig # NoFormat
               THEN ApplyFormat(call'.formatConfig, merged) ELSE merged
  IN  UpdateStep =>
        /\ dataArr'[idx] = call'.data
        /\ Len(log) >= 1
        /\ Len(log) <= Len(C13_Order)
        /\ Fns(log) = SubSeq(C13_Order, 1, Len(log))
        /\ \A i \in 1..Len(log) :
             /\ log[i].fn = "formatConfig" => log[i].args = <<merged>>
             /\ log[i].fn = "updateConfig" =>
                  /\ log[i].plot = plot
                  /\ log[i].args =
                       <<Rec(ObjectAssign(Rec([data |-> call'.data.v]), final))>>
             /\ log[i].fn = "render" => log[i].plot = plot /\ log[i].args = <<>>
        /\ call'.outcome = "returned" =>
             /\ Fns(log) = C13_Order
             /\ call'.ret = plot
        /\ call'.outcome = "threw" => call'.ret = 0

C13_UpdateOrder == [][C13_Step]_vars

\* An update-path call made all five calls and returned.
C13_Witness ==
  /\ call.outcome = "returned"
  /\ Fns(call.log) =
       <<"getOriginConfig", "formatConfig", "updateConfig", "render", "stateManagerFunc">>

\* C14: a getOriginConfig passed to the constructor is called exactly once
\* per update-path call, first of all calls (so before the merge), with the
\* data, config and formatConfig of that call, and is not called on a
\* create-path or a no-op call; without one, the origin configuration is {}:
\* what updateConfig receives is the data of the call together with the
\* request's config ({} when omitted) after formatConfig.
C14_Step ==
  LET log == call'.log
      origins == CallsOf("getOriginConfig", log)
      formatted == IF call'.formatConfig # NoFormat
                   THEN ApplyFormat(call'.formatConfig, RequestConfig)
                   ELSE RequestConfig
  IN  RenderStep =>
        /\ (UpdateStep /\ getOriginConfig # "null") =>
             /\ Len(origins) = 1
             /\ log[1].fn = "getOriginConfig"
             /\ log[1].args = <<call'.data, call'.config, call'.formatConfig>>
        /\ ~(UpdateStep /\ getOriginConfig # "null") => origins = <<>>
        /\ (UpdateStep /\ getOriginConfig = "null") =>
             \A i \in 1..Len(log) :
               log[i].fn = "updateConfig" =>
                 log[i].args =
                   <<Rec(ObjectAssign(Rec([data |-> call'.data.v]), formatted))>>

C14_OriginConfig == [][C14_Step]_vars

\* An update-path call without a formatConfig called getOriginConfig first and
\* went on to updateConfig.
C14_Witness ==
  /\ call.outcome = "returned"
  /\ call.formatConfig = NoFormat
  /\ getOriginConfig # "null"
  /\ Len(call.log) >= 2
  /\ call.log[1].fn = "getOriginConfig"
  /\ call.log[2].fn = "updateConfig"

\* C15: entries are never removed and the instance of an entry is never
\* replaced. A call of render keeps every entry's target and instance where
\* they are (so the number of entries never decreases); a call that returns
\* leaves its target with an entry whose instance is the one returned; and a
\* call for a target that already has an entry returns the instance of that
\* entry (a call that throws returns nothing). So once p was returned for a
\* target, every later call for that target that returns, returns p.
C15_Step ==
  RenderStep =>
    /\ Len(domArr') >= Len(domArr)
    /\ Len(chartPlotArr') = Len(domArr')
    /\ \A i \in 1..Len(domArr) :
         /\ domArr'[i] = domArr[i]
         /\ chartPlotArr'[i] = chartPlotArr[i]
    /\ call'.outcome = "returned" =>
         /\ \E i \in 1..Len(domArr') :
              domArr'[i] = call'.dom /\ chartPlotArr'[i] = call'.ret
         /\ HasEntry(call'.dom) => call'.ret = chartPlotArr[EntryOf(call'.dom)]
    /\ \A i, j \in 1..Len(domArr') : domArr'[i] = domArr'[j] => i = j

C15_EntriesKept == [][C15_Step]_vars

\* After a call that created the entry of another target in between, a later
\* call for the first target rendered returned the instance of its entry.
C15_Witness ==
  /\ nCalls = MaxCalls
  /\ Len(domArr) = 2
  /\ call.dom = domArr[1]
  /\ call.outcome = "returned"
  /\ call.ret = chartPlotArr[1]
  /\ CallsOf("getDom", call.log) = <<>>

\* C17: a call of render for a target without an entry calls getDom and
\* nothing else, however often getDom has thrown for that target before; when
\* getDom throws, the call throws (it returns nothing) and the entries, the
\* stored data and the instances are left as they were, so the target still
\* has no entry and the next call for it is a create again.
C17_Step ==
  (RenderStep /\ ~HasEntry(call'.dom)) =>
    /\ Fns(call'.log) = <<"getDom">>
    /\ getDomCalls'[call'.dom] = getDomCalls[call'.dom] + 1
    /\ getDomThrows'[call'.dom] # getDomThrows[call'.dom] =>
         /\ call'.outcome = "threw"
         /\ call'.ret = 0
         /\ UNCHANGED <<domArr, dataArr, chartPlotArr, plots>>
         /\ \A i \in 1..Len(domArr') : domArr'[i] # call'.dom
    /\ call'.outcome = "threw" => getDomThrows'[call'.dom] = getDomThrows[call'.dom] + 1

C17_FailedCreateLeavesNoEntry == [][C17_Step]_vars

\* getDom threw on the first call for a target; the next call for that target
\* called getDom again and created the entry.
C17_Witness ==
  /\ call.outcome = "returned"
  /\ getDomThrows[call.dom] = 1
  /\ getDomCalls[call.dom] = 2
  /\ Fns(call.log) = <<"getDom">>
  /\ HasEntry(call.dom)

\* C16: on an update-path call the `data` field of the configuration passed
\* to updateConfig is the data of that call, also when the config of the
\* request or the result of formatConfig has a `data` key of its own.
C16_Step ==
  UpdateStep =>
    \A i \in 1..Len(call'.log) :
      call'.log[i].fn = "updateConfig" =>
        Get(call'.log[i].args[1], "data") = call'.data.v

C16_DataFieldIsRequestData == [][C16_Step]_vars

-----------------------------------------------------------------------------
(* Properties of the ImagePicker, under SpecPicker. *)

\* The names of the functions an attempt has called.
Calls(attempt) == {attempt.calls[i].fn : i \in 1..Len(attempt.calls)}

\* The attempt is over and it failed: the picker reported an error, or the
\* upload returned success = false or threw.
Failed(attempt) ==
  \/ attempt.pc = "rejected"
  \/ /\ attempt.pc = "done"
     /\ \/ attempt.response.error # Absent
        \/ /\ Calls(attempt) \cap {"customRequest", "uploadFile"} # {}
           /\ "onSuccess" \notin Calls(attempt)

\* C12: for every attempt that failed (the response carries an error, or the
\* upload returned success = false or threw), onFailed was called once for
\* that attempt and onSuccess was not.
C12_FailureCallsOnFailed ==
  \A i \in 1..Len(attempts) :
    Failed(attempts[i]) =>
      /\ Len(SelectSeq(attempts[i].calls, LAMBDA e : e.fn = "onFailed")) = 1
      /\ "onSuccess" \notin Calls(attempts[i])

\* C18: for every attempt whose response reports a cancellation (didCancel,
\* no error), with or without an onCancel prop, no upload was started
\* (neither customRequest nor uploadFile was called), the image source was
\* not set and onSuccess was not called.
C18_CancelStartsNoUpload ==
  \A i \in 1..Len(attempts) :
    (attempts[i].response.didCancel /\ attempts[i].response.error = Absent) =>
      Calls(attempts[i])
        \cap {"customRequest", "uploadFile", "setCurrentImgSource", "onSuccess"} = {}

=============================================================================
